---------------------------- MODULE Spec2Model ----------------------------
(***************************************************************************)
(* Qcover: QUBO/Ising utilities (applications/common.py), the Max-Cut      *)
(* wrapper (applications/max_cut.py) and the tensor-network circuit        *)
(* evaluator (backends/circuitbytensor.py).                                *)
(*                                                                         *)
(* Numbers.  Reals are held in fixed point: the integer x stands for       *)
(* x * 1e-8, so the threshold 1e-8 of get_weights_graph is the integer 1.  *)
(* numpy arrays and node lists are functions on 0..n-1, as in the source.  *)
(* The lists that are only iterated, sliced or appended to (_pargs, the    *)
(* gates of a circuit, the items of a dict, _expectation_path) are         *)
(* sequences: Python's index k is k + 1 here.                              *)
(* An optional value (None or a value) is a sequence of length 0 or 1.     *)
(***************************************************************************)
EXTENDS Integers, Sequences, FiniteSets, TLC

VARIABLES
    pc,                 \* position of the caller: "call", "done", or "pool" while a pool.map runs
    fn,                 \* name of the function or method of the last call
    input,              \* arguments of the last call
    output,             \* what the last call left behind: its return value and its arguments afterwards
    _graph,             \* MaxCut._graph
    _node_num,          \* MaxCut._node_num
    _qmatrix,           \* MaxCut._qmatrix
    _p,                 \* CircuitByTensor._p
    _pargs,             \* CircuitByTensor._pargs
    _nodes_weight,      \* CircuitByTensor._nodes_weight
    _edges_weight,      \* CircuitByTensor._edges_weight
    _is_parallel,       \* CircuitByTensor._is_parallel
    _element_to_graph,  \* CircuitByTensor._element_to_graph, as the list of its items()
    _expectation_path,  \* CircuitByTensor._expectation_path
    os_environ,         \* the thread-count variables of os.environ (all five are set to the same value)
    tasks,              \* pool.map: state of each submitted task
    circ_res,           \* pool.map: result slot of each task
    returned            \* totals returned by the completed calls of expectation_calculation, in call order

callVars == <<pc, fn, input, output>>
maxcutVars == <<_graph, _node_num, _qmatrix>>
circuitVars == <<_p, _pargs, _nodes_weight, _edges_weight, _is_parallel,
                 _element_to_graph, _expectation_path>>
poolVars == <<os_environ, tasks, circ_res, returned>>
vars == <<pc, fn, input, output, _graph, _node_num, _qmatrix, _p, _pargs,
          _nodes_weight, _edges_weight, _is_parallel, _element_to_graph,
          _expectation_path, os_environ, tasks, circ_res, returned>>

None == <<>>
Some(x) == <<x>>

\* largest matrix dimension explored
MaxN == 2

Abs(x) == IF x < 0 THEN -x ELSE x

SquareMatrices(n, vals) == [0..(n - 1) -> [0..(n - 1) -> vals]]

\* f with key k set to v (a dict assignment)
SetKey(f, k, v) == [x \in DOMAIN f \cup {k} |-> IF x = k THEN v ELSE f[x]]

(***************************************************************************)
(* applications/common.py                                                  *)
(***************************************************************************)

\* len of a list
len(l) == Cardinality(DOMAIN l)

\* np.size(mat, 0)
np_size(mat) == Cardinality(DOMAIN mat)

RECURSIVE SumUpTo(_, _)
SumUpTo(row, k) == IF k = 0 THEN 0 ELSE SumUpTo(row, k - 1) + row[k - 1]

\* np.sum of a one-dimensional array
np_sum(row) == SumUpTo(row, np_size(row))

\* np.true_divide: the exact quotient (the inputs explored are those whose quotient is representable)
np_true_divide(x, d) == CHOOSE q \in (-Abs(x))..Abs(x) : q * d = x

\* np.zeros_like(mat, dtype='float')
np_zeros_like(mat) == [i \in DOMAIN mat |-> [j \in DOMAIN mat[i] |-> 0]]

\* the array object that the name ising_mat is bound to: the fresh one of np.zeros_like
IsingRef == "ising_mat"

\* the value the loop body of get_ising_matrix stores in ising_mat[i][j]
\* (faulty variant: the diagonal entry is not subtracted from the row sum)
IsingEntryNoSubtract(qubo_mat, i, j) ==
    IF i = j
    THEN np_true_divide(qubo_mat[i][i], 2) + np_sum(qubo_mat[i])
    ELSE np_true_divide(qubo_mat[i][j], 4)
IsingEntry(qubo_mat, i, j) ==
    IF i = j
    THEN np_true_divide(qubo_mat[i][i], 2) + np_sum(qubo_mat[i]) - qubo_mat[i][i]
    ELSE np_true_divide(qubo_mat[i][j], 4)

\* the two nested loops of get_ising_matrix, cell c = i * mat_len + j, over the array store
RECURSIVE IsingLoop(_, _, _)
IsingLoop(store, mat_len, c) ==
    IF c >= mat_len * mat_len THEN store
    ELSE LET i == c \div mat_len
             j == c % mat_len
             v == IsingEntry(store.qubo_mat, i, j)
         IN IsingLoop([store EXCEPT ![IsingRef][i][j] = v], mat_len, c + 1)

\* get_ising_matrix(qubo_mat): ret is the returned matrix, qubo_mat the argument array afterwards
get_ising_matrix(qubo_mat) ==
    LET store0 == [qubo_mat |-> qubo_mat, ising_mat |-> np_zeros_like(qubo_mat)]
        store == IsingLoop(store0, np_size(qubo_mat), 0)
    IN [ret |-> store[IsingRef], qubo_mat |-> store.qubo_mat]

\* threshold of get_weights_graph, 1e-8
Eps == 1

\* nx.Graph(): node maps a node to its attributes (<<>> or <<weight>>),
\* adj maps an undirected edge {u, v} to its weight
nx_Graph == [node |-> <<>>, adj |-> <<>>]

\* Graph.add_node(n, weight=w)
add_node(g, n, w) == [g EXCEPT !.node = SetKey(g.node, n, Some(w))]

\* Graph.add_edge(u, v, weight=w): creates missing endpoints without attributes
add_edge(g, u, v, w) ==
    [node |-> [x \in DOMAIN g.node \cup {u, v} |-> IF x \in DOMAIN g.node THEN g.node[x] ELSE None],
     adj |-> SetKey(g.adj, {u, v}, w)]

\* node_map of get_weights_graph: a defaultdict(int) filled from the graph's node list or with the identity
node_map(cnt, graph, i) ==
    IF graph # None
    THEN (IF i < len(graph[1]) THEN graph[1][i] ELSE 0)
    ELSE i

\* the test that skips an entry of the Ising matrix
\* (faulty variant: < instead of <=)
NearZeroStrict(x) == Abs(x - 0) < Eps
NearZero(x) == Abs(x - 0) <= Eps

\* the two nested loops of get_weights_graph, cell c = i * cnt + j
RECURSIVE WeightsLoop(_, _, _, _, _)
WeightsLoop(g, ising_mat, graph, cnt, c) ==
    IF c >= cnt * cnt THEN g
    ELSE LET i == c \div cnt
             j == c % cnt
             g2 == IF i = j
                   THEN add_node(g, node_map(cnt, graph, i), ising_mat[i][i])
                   ELSE IF NearZero(ising_mat[i][j])
                        THEN g
                        ELSE add_edge(g, node_map(cnt, graph, i), node_map(cnt, graph, j),
                                      ising_mat[i][j])
         IN WeightsLoop(g2, ising_mat, graph, cnt, c + 1)

\* get_weights_graph(ising_mat, graph): graph is None or Some(node list)
get_weights_graph(ising_mat, graph) ==
    WeightsLoop(nx_Graph, ising_mat, graph, np_size(ising_mat), 0)

(***************************************************************************)
(* applications/max_cut.py                                                 *)
(*                                                                         *)
(* A graph of a MaxCut instance has the nodes 0..n-1; its self-loop at     *)
(* node i is the edge {i}.  No code of the repository catches an           *)
(* exception, so a call that raises ends the program: the actions below    *)
(* are the calls that return.                                              *)
(***************************************************************************)

\* number of nodes of a graph
number_of_nodes(g) == Cardinality(DOMAIN g.node)

\* nx.adjacency_matrix(g).A: entry [i][j] is the weight of the edge {i,j}, 0 when absent;
\* a self-loop's weight is on the diagonal
adjacency_matrix(g) ==
    [i \in 0..(number_of_nodes(g) - 1) |->
        [j \in 0..(number_of_nodes(g) - 1) |->
            IF {i, j} \in DOMAIN g.adj THEN g.adj[{i, j}] ELSE 0]]

\* the simple graphs on 0..n-1 in which every node has degree d, as sets of edges
RegularEdgeSets(n, d) ==
    {E \in SUBSET {{i, j} : i, j \in 0..(n - 1)} :
        /\ \A e \in E : Cardinality(e) = 2
        /\ \A i \in 0..(n - 1) : Cardinality({e \in E : i \in e}) = d}

\* weights random.uniform draws for the edges and nodes of a random graph
RandomVals == {8, 12}

\* random_regular_graph(node_num, degree, ...): the graphs it can return. Every edge gets a
\* weight, every node a weight and a self-loop of that weight.
random_regular_graph(node_num, degree) ==
    IF (node_num * degree) % 2 # 0 \/ degree < 0 \/ degree >= node_num THEN {}
    ELSE UNION {
            {[node |-> [i \in 0..(node_num - 1) |-> Some(nw[i])],
              adj |-> [e \in E \cup {{i} : i \in 0..(node_num - 1)} |->
                          IF Cardinality(e) = 2 THEN ew[e]
                          ELSE nw[CHOOSE i \in e : TRUE]]] :
                nw \in [0..(node_num - 1) -> RandomVals], ew \in [E -> RandomVals]} :
            E \in RegularEdgeSets(node_num, degree)}

\* the array object that the name qubo_mat is bound to: the copy of adj_mat
\* (faulty variant: no copy, qubo_mat is adj_mat itself)
AliasedQuboRef == "adj_mat"
QuboRef == "qubo_mat"

\* the loop of get_Qmatrix over the array store
RECURSIVE QmatrixLoop(_, _, _)
QmatrixLoop(store, node_num, i) ==
    IF i >= node_num THEN store
    ELSE QmatrixLoop(
            [store EXCEPT ![QuboRef][i][i] = -(np_sum(store.adj_mat[i]) - store.adj_mat[i][i])],
            node_num, i + 1)

\* MaxCut.get_Qmatrix: ret is the returned matrix, adj_mat the adjacency array afterwards
get_Qmatrix(graph, node_num) ==
    LET adj_mat == adjacency_matrix(graph)
        store0 == [adj_mat |-> adj_mat, qubo_mat |-> adj_mat]
        store == QmatrixLoop(store0, node_num, 0)
    IN [ret |-> store[QuboRef], adj_mat |-> store.adj_mat]

\* np.outer(a, b)
np_outer(a, b) == [i \in DOMAIN a |-> [j \in DOMAIN b |-> a[i] * b[j]]]

\* np.sum of a two-dimensional array
RECURSIVE SumRowsUpTo(_, _)
SumRowsUpTo(m, k) == IF k = 0 THEN 0 ELSE SumRowsUpTo(m, k - 1) + np_sum(m[k - 1])
np_sum2(m) == SumRowsUpTo(m, np_size(m))

\* MaxCut.max_cut_value(x, w)
\* (faulty variant: outer(x, x))
max_cut_value_outer_xx(x, w) ==
    LET X == np_outer(x, x)
    IN np_sum2([i \in DOMAIN w |-> [j \in DOMAIN w[i] |-> w[i][j] * X[i][j]]])
max_cut_value(x, w) ==
    LET X == np_outer(x, [j \in DOMAIN x |-> 1 - x[j]])
    IN np_sum2([i \in DOMAIN w |-> [j \in DOMAIN w[i] |-> w[i][j] * X[i][j]]])

(***************************************************************************)
(* backends/circuitbytensor.py                                             *)
(*                                                                         *)
(* An element is <<n>> for the node n (a Python int) and <<u, v>> for the  *)
(* edge (u, v) (a tuple).  A subgraph of an element is the record of       *)
(* list(graph.nodes) and list(graph.edges).  self is the record of the     *)
(* instance's fields that get_expectation reads.                           *)
(***************************************************************************)

\* isinstance(original_e, int)
is_int(original_e) == Len(original_e) = 1

\* node_to_qubit of get_expectation: a defaultdict(int) mapping node_list[i] to i
node_to_qubit(graph, nd) ==
    IF \E i \in 1..Len(graph.nodes) : graph.nodes[i] = nd
    THEN (CHOOSE i \in 1..Len(graph.nodes) : graph.nodes[i] = nd) - 1
    ELSE 0

Gate(name, params, qubits) == [gate |-> name, params |-> params, qubits |-> qubits]

\* the H gate of the first loop over the nodes: only in layer k = 0
\* (faulty variant: H in every layer)
HadamardEveryLayer(k, u) == <<Gate("H", <<>>, <<u>>)>>
Hadamard(k, u) == IF k = 0 THEN <<Gate("H", <<>>, <<u>>)>> ELSE <<>>

\* first loop over graph.nodes in layer k, from the i-th node on
RECURSIVE RzLoop(_, _, _, _, _)
RzLoop(self, graph, gamma_list, k, i) ==
    IF i > Len(graph.nodes) THEN <<>>
    ELSE LET nd == graph.nodes[i]
             u == node_to_qubit(graph, nd)
         IN Hadamard(k, u)
            \o <<Gate("rz", <<2 * gamma_list[k + 1] * self.nodes_weight[nd]>>, <<u>>)>>
            \o RzLoop(self, graph, gamma_list, k, i + 1)

\* loop over graph.edges in layer k, from the i-th edge on
RECURSIVE RzzLoop(_, _, _, _, _)
RzzLoop(self, graph, gamma_list, k, i) ==
    IF i > Len(graph.edges) THEN <<>>
    ELSE LET edge == graph.edges[i]
             u == node_to_qubit(graph, edge[1])
             v == node_to_qubit(graph, edge[2])
         IN (IF u = v THEN <<>>
             ELSE <<Gate("RZZ", <<-gamma_list[k + 1] * self.edges_weight[edge]>>, <<u, v>>)>>)
            \o RzzLoop(self, graph, gamma_list, k, i + 1)

\* second loop over graph.nodes in layer k, from the i-th node on
RECURSIVE RxLoop(_, _, _, _)
RxLoop(graph, beta_list, k, i) ==
    IF i > Len(graph.nodes) THEN <<>>
    ELSE <<Gate("rx", <<2 * beta_list[k + 1]>>, <<node_to_qubit(graph, graph.nodes[i])>>)>>
         \o RxLoop(graph, beta_list, k, i + 1)

\* the loop over k in range(self._p), from layer k on
RECURSIVE LayerLoop(_, _, _, _, _)
LayerLoop(self, graph, gamma_list, beta_list, k) ==
    IF k >= self.p THEN <<>>
    ELSE RzLoop(self, graph, gamma_list, k, 1)
         \o RzzLoop(self, graph, gamma_list, k, 1)
         \o RxLoop(graph, beta_list, k, 1)
         \o LayerLoop(self, graph, gamma_list, beta_list, k + 1)

\* the circuit get_expectation builds for a subgraph
BuildCircuit(self, graph) ==
    LET gamma_list == SubSeq(self.pargs, 1, self.p)
        beta_list == SubSeq(self.pargs, self.p + 1, Len(self.pargs))
    IN LayerLoop(self, graph, gamma_list, beta_list, 0)

\* circ.local_expectation(G, where).real: the contraction is quimb's, outside the repository;
\* a fixed function of the circuit, the observable and the qubits stands for it
RECURSIVE GateSum(_, _)
GateSum(circ, i) ==
    IF i > Len(circ) THEN 0
    ELSE i * (Len(circ[i].params) + Len(circ[i].qubits)
              + (IF circ[i].params = <<>> THEN 0 ELSE circ[i].params[1]))
         + GateSum(circ, i + 1)
local_expectation(circ, G, where) == ((GateSum(circ, 1) + Len(G) + where[1]) % 5) - 2

\* integers up to this magnitude are representable
ExactRange == 4

\* a toy floating point: a result within ExactRange is exact, a larger one is rounded to a
\* multiple of 2, so that the order of additions matters as it does for Python floats
Round(x) == IF Abs(x) > ExactRange THEN 2 * (x \div 2) ELSE x
FAdd(a, b) == Round(a + b)
FMul(a, b) == Round(a * b)

\* the measurement of get_expectation: observable, qubits and weight for an element
Measurement(self, original_e, graph) ==
    IF is_int(original_e)
    THEN [weight |-> self.nodes_weight[original_e[1]],
          where |-> <<node_to_qubit(graph, original_e[1])>>,
          G |-> "Z"]
    ELSE [weight |-> self.edges_weight[original_e],
          where |-> <<node_to_qubit(graph, original_e[1]), node_to_qubit(graph, original_e[2])>>,
          G |-> "ZZ"]

\* CircuitByTensor.get_expectation(element_graph), with what it built
get_expectation_trace(self, element_graph) ==
    LET original_e == element_graph[1]
        graph == element_graph[2]
        circ == BuildCircuit(self, graph)
        m == Measurement(self, original_e, graph)
    IN [ret |-> FMul(local_expectation(circ, m.G, m.where), m.weight),
        circ |-> circ, G |-> m.G, where |-> m.where, weight |-> m.weight]

\* CircuitByTensor.get_expectation(element_graph)
get_expectation(self, element_graph) == get_expectation_trace(self, element_graph).ret

\* the loop of expectation_calculation_serial: res after the first k items
\* (faulty variant: the first item is skipped)
RECURSIVE SerialLoopSkipsFirst(_, _, _)
SerialLoopSkipsFirst(self, items, k) ==
    IF k <= 1 THEN 0
    ELSE FAdd(SerialLoopSkipsFirst(self, items, k - 1), get_expectation(self, items[k]))
RECURSIVE SerialLoop(_, _, _)
SerialLoop(self, items, k) ==
    IF k = 0 THEN 0
    ELSE FAdd(SerialLoop(self, items, k - 1), get_expectation(self, items[k]))

\* the value expectation_calculation_serial returns
expectation_calculation_serial(self, items) == SerialLoop(self, items, Len(items))

\* Python's sum(list): from 0, left to right
RECURSIVE SumList(_, _)
SumList(list, k) == IF k = 0 THEN 0 ELSE FAdd(SumList(list, k - 1), list[k])
py_sum(list) == SumList(list, Len(list))

\* pool.map: the position of the result of task i in the returned list
\* (faulty variant: results in the order of arrival)
ArrivalSlot(slots, i) == CHOOSE k \in 1..Len(slots) : slots[k] = None /\ \A j \in 1..(k - 1) : slots[j] # None
ResultSlot(slots, i) == i

\* list.append of a total to _expectation_path
\* (faulty variant: the path is replaced)
path_overwrite(path, res) == <<res>>
path_append(path, res) == Append(path, res)

\* pool.map returns once every task has delivered its result
MapDone(ts) == \A i \in 1..Len(ts) : ts[i] = "done"

(***************************************************************************)
(* Calls of the pure functions on the inputs explored                      *)
(***************************************************************************)

\* entries of the QUBO matrices explored (multiples of 4e-8, so that /2 and /4 are exact)
QuboVals == {-4, 0, 8}
\* off-diagonal entries of the Ising matrices explored: zero, at the threshold, beyond it
IsingOffVals == {-2, 0, 1, 3}
IsingDiagVals == {0, 3}
\* node lists passed as the graph argument of get_weights_graph
NodeLists == {(0 :> 5), (0 :> 5 @@ 1 :> 7)}

\* entries of the adjacency matrices passed to max_cut_value
CutVals == {0, 1, 3}
CutInputs ==
    UNION {[x : [0..(n - 1) -> {0, 1}], w : SquareMatrices(n, CutVals)] : n \in 0..MaxN}

QuboInputs == UNION {SquareMatrices(n, QuboVals) : n \in 0..MaxN}
IsingInputs ==
    UNION {{m \in SquareMatrices(n, IsingOffVals \cup IsingDiagVals) :
               \A i, j \in 0..(n - 1) :
                   m[i][j] \in (IF i = j THEN IsingDiagVals ELSE IsingOffVals)} : n \in 0..MaxN}

IdleMaxCut == _graph = None /\ _node_num = 0 /\ _qmatrix = None
IdleCircuit ==
    /\ _p = None /\ _pargs = None /\ _nodes_weight = None /\ _edges_weight = None
    /\ _is_parallel = FALSE /\ _element_to_graph = None /\ _expectation_path = <<>>
IdlePool == os_environ = None /\ tasks = <<>> /\ circ_res = <<>> /\ returned = <<>>

InitCommon ==
    /\ pc = "call"
    /\ \/ fn = "get_ising_matrix" /\ input \in [qubo_mat : QuboInputs]
       \/ fn = "get_weights_graph"
          /\ input \in [ising_mat : IsingInputs, graph : {None} \cup {Some(l) : l \in NodeLists}]
       \/ fn = "max_cut_value" /\ input \in CutInputs
    /\ output = None
    /\ IdleMaxCut /\ IdleCircuit /\ IdlePool

CallGetIsingMatrix ==
    /\ pc = "call" /\ fn = "get_ising_matrix"
    /\ output' = get_ising_matrix(input.qubo_mat)
    /\ pc' = "done"
    /\ UNCHANGED <<fn, input, maxcutVars, circuitVars, poolVars>>

CallGetWeightsGraph ==
    /\ pc = "call" /\ fn = "get_weights_graph"
    /\ output' = [ret |-> get_weights_graph(input.ising_mat, input.graph)]
    /\ pc' = "done"
    /\ UNCHANGED <<fn, input, maxcutVars, circuitVars, poolVars>>

CallMaxCutValue ==
    /\ pc = "call" /\ fn = "max_cut_value"
    /\ output' = [ret |-> max_cut_value(input.x, input.w)]
    /\ pc' = "done"
    /\ UNCHANGED <<fn, input, maxcutVars, circuitVars, poolVars>>

NextCommon == CallGetIsingMatrix \/ CallGetWeightsGraph \/ CallMaxCutValue

SpecCommon == InitCommon /\ [][NextCommon]_vars

\* sum of the entries of row i of m outside the diagonal
RECURSIVE SumOver(_, _)
SumOver(row, S) ==
    IF S = {} THEN 0 ELSE LET j == CHOOSE k \in S : TRUE IN row[j] + SumOver(row, S \ {j})
OffDiagSum(m, i) == SumOver(m[i], DOMAIN m[i] \ {i})

\* C3: get_ising_matrix returns a new matrix M of the shape of Q with M[i][j] = Q[i][j]/4
\* off the diagonal and M[i][i] = Q[i][i]/2 + sum(row i) - Q[i][i], which is the sum of the
\* off-diagonal entries of row i plus half the diagonal entry; Q is left unchanged.
C3_IsingMatrix ==
    (pc = "done" /\ fn = "get_ising_matrix") =>
        LET Q == input.qubo_mat
            M == output.ret
        IN /\ DOMAIN M = DOMAIN Q
           /\ \A i \in DOMAIN Q : DOMAIN M[i] = DOMAIN Q[i]
           /\ \A i \in DOMAIN Q : \A j \in DOMAIN Q \ {i} : 4 * M[i][j] = Q[i][j]
           /\ \A i \in DOMAIN Q : 2 * M[i][i] = Q[i][i] + 2 * OffDiagSum(Q, i)
           /\ \A i \in DOMAIN Q : 2 * M[i][i] = Q[i][i] + 2 * SumOver(Q[i], DOMAIN Q[i]) - 2 * Q[i][i]
           /\ output.qubo_mat = Q

\* a call on a 2x2 matrix with a non-zero diagonal entry and non-zero off-diagonal entries has returned
C3_Witness ==
    /\ pc = "done" /\ fn = "get_ising_matrix"
    /\ np_size(input.qubo_mat) = 2
    /\ input.qubo_mat[0][0] = 8 /\ input.qubo_mat[0][1] = -4 /\ input.qubo_mat[1][0] = 8
    /\ output.ret[0][0] = 0 /\ output.ret[0][1] = -1

\* the nodes of the graph returned for graph=None: exactly 0..n-1, node i weighted M[i][i]
WeightsGraphNodes(M, g) ==
    /\ DOMAIN g.node = DOMAIN M
    /\ \A i \in DOMAIN M : g.node[i] = Some(M[i][i])

\* C4 as stated: for every square M and every pair i # j the edge {i,j} is present with
\* weight M[i][j] if and only if |M[i][j]| > 1e-8.
C4_AsStated ==
    (pc = "done" /\ fn = "get_weights_graph" /\ input.graph = None) =>
        LET M == input.ising_mat
            g == output.ret
        IN /\ WeightsGraphNodes(M, g)
           /\ \A i \in DOMAIN M : \A j \in DOMAIN M \ {i} :
                  ({i, j} \in DOMAIN g.adj /\ g.adj[{i, j}] = M[i][j]) <=> (Abs(M[i][j]) > Eps)

\* C4 amended: with graph=None the result has exactly the nodes 0..n-1, node i weighted
\* M[i][i]; it has no self-loops, and for i < j the edge {i,j} is present if and only if
\* |M[i][j]| > 1e-8 or |M[j][i]| > 1e-8, weighted M[j][i] when |M[j][i]| > 1e-8 and M[i][j]
\* otherwise (for a symmetric M: present with weight M[i][j] iff |M[i][j]| > 1e-8).
C4_WeightsGraph ==
    (pc = "done" /\ fn = "get_weights_graph" /\ input.graph = None) =>
        LET M == input.ising_mat
            g == output.ret
        IN /\ WeightsGraphNodes(M, g)
           /\ \A e \in DOMAIN g.adj : e \subseteq DOMAIN M /\ Cardinality(e) = 2
           /\ \A i \in DOMAIN M : \A j \in DOMAIN M :
                  i < j =>
                     /\ {i, j} \in DOMAIN g.adj <=> (Abs(M[i][j]) > Eps \/ Abs(M[j][i]) > Eps)
                     /\ {i, j} \in DOMAIN g.adj =>
                           g.adj[{i, j}] = (IF Abs(M[j][i]) > Eps THEN M[j][i] ELSE M[i][j])
                     /\ M[i][j] = M[j][i] =>
                           (({i, j} \in DOMAIN g.adj /\ g.adj[{i, j}] = M[i][j])
                               <=> Abs(M[i][j]) > Eps)

\* a call with graph=None on a 2x2 matrix whose two off-diagonal entries differ and both pass
\* the threshold has returned
C4_Witness ==
    /\ pc = "done" /\ fn = "get_weights_graph" /\ input.graph = None
    /\ np_size(input.ising_mat) = 2
    /\ input.ising_mat[0][1] = 3 /\ input.ising_mat[1][0] = -2
    /\ output.ret.adj[{0, 1}] = -2

\* C6: for a 0/1 vector x and a symmetric w, max_cut_value is the sum of w[i][j] over the
\* edges {i,j} with x[i] # x[j], each counted once and self-loops never; so it is 0 for x
\* all zeros or all ones and is the same for the complement 1-x.
C6_MaxCutValue ==
    (pc = "done" /\ fn = "max_cut_value"
        /\ \A i, j \in DOMAIN input.w : input.w[i][j] = input.w[j][i]) =>
        LET x == input.x
            w == input.w
            cut == {e \in {<<i, j>> : i, j \in DOMAIN x} : e[1] < e[2] /\ x[e[1]] # x[e[2]]}
            weight == [e \in cut |-> w[e[1]][e[2]]]
        IN /\ output.ret = SumOver(weight, cut)
           /\ ((\A i \in DOMAIN x : x[i] = 0) \/ (\A i \in DOMAIN x : x[i] = 1)) => output.ret = 0
           /\ output.ret = max_cut_value([i \in DOMAIN x |-> 1 - x[i]], w)

\* max_cut_value has returned the weight 3 of the one cut edge of a symmetric 2x2 matrix
\* that also has self-loops
C6_Witness ==
    /\ pc = "done" /\ fn = "max_cut_value"
    /\ np_size(input.w) = 2
    /\ input.w[0][1] = 3 /\ input.w[1][0] = 3 /\ input.w[0][0] = 1 /\ input.w[1][1] = 1
    /\ input.x[0] = 1 /\ input.x[1] = 0
    /\ output.ret = 3

(***************************************************************************)
(* A MaxCut instance: constructor, update_random_graph, get_Qmatrix, run   *)
(***************************************************************************)

\* edge weights of the graphs handed to the constructor (0: no edge)
CtorVals == {0, 8}

\* the graphs handed to the constructor: nodes 0..n-1 without attributes, any edges and self-loops
CtorGraphs ==
    UNION {{[node |-> [i \in 0..(n - 1) |-> None],
             adj |-> [e \in {d \in DOMAIN w : w[d] # 0} |-> w[e]]] :
               w \in [{{i, j} : i, j \in 0..(n - 1)} -> CtorVals]} : n \in 0..MaxN}

InitMaxCut ==
    /\ pc = "done" /\ fn = "__init__" /\ input = None /\ output = None
    /\ \/ \E graph \in CtorGraphs :
             _graph = graph /\ _node_num = number_of_nodes(graph)
       \/ \E node_num \in 0..MaxN, node_degree \in 0..MaxN :
             /\ _node_num = node_num
             /\ _graph \in random_regular_graph(node_num, node_degree)
    /\ _qmatrix = None
    /\ IdleCircuit /\ IdlePool

UpdateRandomGraph ==
    \E node_num \in 0..MaxN, node_degree \in 0..MaxN :
        /\ _node_num' = node_num
        /\ _graph' \in random_regular_graph(node_num, node_degree)
        /\ fn' = "update_random_graph"
        /\ input' = [node_num |-> node_num, node_degree |-> node_degree]
        /\ output' = [ret |-> None]
        /\ UNCHANGED <<pc, _qmatrix, circuitVars, poolVars>>

CallGetQmatrix ==
    /\ number_of_nodes(_graph) > 0      \* nx.adjacency_matrix raises on a graph without nodes
    /\ fn' = "get_Qmatrix"
    /\ input' = None
    /\ output' = get_Qmatrix(_graph, _node_num)
    /\ UNCHANGED <<pc, maxcutVars, circuitVars, poolVars>>

Run ==
    LET qmatrix == IF _qmatrix = None THEN Some(get_Qmatrix(_graph, _node_num).ret) ELSE _qmatrix
        qubo_mat == qmatrix[1]
        ising_mat == get_ising_matrix(qubo_mat).ret
        mc_graph == get_weights_graph(ising_mat, None)
    IN /\ _qmatrix = None => number_of_nodes(_graph) > 0
       /\ _qmatrix' = qmatrix
       /\ fn' = "run"
       /\ input' = None
       /\ output' = [ret |-> mc_graph]
       /\ UNCHANGED <<pc, _graph, _node_num, circuitVars, poolVars>>

NextMaxCut == UpdateRandomGraph \/ CallGetQmatrix \/ Run

SpecMaxCut == InitMaxCut /\ [][NextMaxCut]_vars

\* C5: get_Qmatrix returns Q with Q[i][j] = A[i][j] off the diagonal and Q[i][i] minus the
\* sum of the off-diagonal entries of row i of A, A being the adjacency matrix of the
\* instance's graph: every row of Q sums to zero, no self-loop weight A[i][i] appears in Q,
\* and the adjacency matrix is not modified.
C5_Qmatrix ==
    (fn = "get_Qmatrix") =>
        LET A == adjacency_matrix(_graph)
            Q == output.ret
        IN /\ DOMAIN Q = DOMAIN A
           /\ \A i \in DOMAIN A : DOMAIN Q[i] = DOMAIN A[i]
           /\ \A i \in DOMAIN A : \A j \in DOMAIN A \ {i} : Q[i][j] = A[i][j]
           /\ \A i \in DOMAIN A : Q[i][i] = -OffDiagSum(A, i)
           /\ \A i \in DOMAIN A : SumOver(Q[i], DOMAIN Q[i]) = 0
           /\ output.adj_mat = A

\* get_Qmatrix has returned for a graph of two nodes with an edge of weight 12 and
\* self-loops of weight 8
C5_Witness ==
    /\ fn = "get_Qmatrix"
    /\ _node_num = 2
    /\ {0, 1} \in DOMAIN _graph.adj /\ _graph.adj[{0, 1}] = 12
    /\ {0} \in DOMAIN _graph.adj /\ _graph.adj[{0}] = 8
    /\ output.ret[0][0] = -12 /\ output.ret[0][1] = 12

\* C8: run returns the weighted Ising graph derived from the Q matrix of the instance's
\* current graph (the constructor's, or the one of the most recent update_random_graph).
C8_RunUsesCurrentGraph ==
    (fn = "run") =>
        output.ret =
            get_weights_graph(get_ising_matrix(get_Qmatrix(_graph, _node_num).ret).ret, None)

(***************************************************************************)
(* A CircuitByTensor instance: constructor, the caller's assignment of     *)
(* _element_to_graph, _p and _pargs, get_expectation and                   *)
(* expectation_calculation, serial or through a process pool               *)
(***************************************************************************)

\* most items of _element_to_graph
MaxElems == 3
\* largest _p
MaxP == 2
\* most completed calls of expectation_calculation
MaxCalls == 2
\* number of pool workers, os.cpu_count()
PoolSize == 2

\* subgraphs of elements: one node with a self-loop; two nodes (listed 1, 0) with an edge and
\* a self-loop; a path of three nodes (listed 2, 1, 0)
GraphA == [nodes |-> <<0>>, edges |-> << <<0, 0>> >>]
GraphB == [nodes |-> <<1, 0>>, edges |-> << <<0, 1>>, <<1, 1>> >>]
GraphC == [nodes |-> <<2, 1, 0>>, edges |-> << <<1, 2>>, <<0, 1>> >>]

\* the (element, subgraph) items the dicts explored are made of
ItemPool == {<< <<0>>, GraphA >>, << <<1>>, GraphB >>, << <<0, 1>>, GraphB >>, << <<1, 2>>, GraphC >>}

\* the dicts explored, as their items(): no key twice
ElementToGraphs ==
    UNION {{items \in [1..n -> ItemPool] :
               \A i, j \in 1..n : i # j => items[i][1] # items[j][1]} : n \in 0..MaxElems}

NodeWeightChoices == {(0 :> 2 @@ 1 :> 3 @@ 2 :> 1), (0 :> 1 @@ 1 :> 1 @@ 2 :> 2)}
EdgeWeightChoices == {(<<0, 1>> :> 2 @@ <<1, 2>> :> 3 @@ <<0, 0>> :> 1 @@ <<1, 1>> :> 1)}

\* parameter vectors of length 2p: p gammas, then p betas
PargsChoices(p) == {[i \in 1..(2 * p) |-> i], [i \in 1..(2 * p) |-> 2 * p + 2 - i]}

\* the fields of the instance that get_expectation reads
Self == [p |-> _p[1], pargs |-> _pargs[1],
         nodes_weight |-> _nodes_weight, edges_weight |-> _edges_weight]

\* CircuitByTensor.__init__(nodes_weight, edges_weight, contract_opt, is_parallel)
Init ==
    /\ pc = "done" /\ fn = "__init__" /\ output = None
    /\ \E is_parallel \in {None, Some(TRUE), Some(FALSE)} :
          /\ input = [is_parallel |-> is_parallel]
          /\ _is_parallel = (IF is_parallel = None THEN FALSE ELSE is_parallel[1])
    /\ _p = None /\ _pargs = None /\ _element_to_graph = None
    /\ _nodes_weight \in NodeWeightChoices
    /\ _edges_weight \in EdgeWeightChoices
    /\ _expectation_path = <<>>
    /\ os_environ = None /\ tasks = <<>> /\ circ_res = <<>> /\ returned = <<>>
    /\ IdleMaxCut

\* the caller sets _element_to_graph, _p and _pargs before the first evaluation
Setup ==
    /\ pc = "done" /\ _element_to_graph = None
    /\ \E items \in ElementToGraphs, p \in 0..MaxP :
          /\ _element_to_graph' = Some(items)
          /\ _p' = Some(p)
          /\ _pargs' \in {Some(a) : a \in PargsChoices(p)}
    /\ fn' = "assign" /\ input' = None /\ output' = None
    /\ UNCHANGED <<pc, maxcutVars, _nodes_weight, _edges_weight, _is_parallel,
                   _expectation_path, poolVars>>

\* the caller replaces _pargs between two evaluations
SetPargs ==
    /\ pc = "done" /\ _element_to_graph # None
    /\ _pargs' \in {Some(a) : a \in PargsChoices(_p[1])}
    /\ _pargs' # _pargs
    /\ fn' = "assign" /\ input' = None /\ output' = None
    /\ UNCHANGED <<pc, maxcutVars, _p, _nodes_weight, _edges_weight, _is_parallel,
                   _element_to_graph, _expectation_path, poolVars>>

\* a call of get_expectation on an item of the dict
CallGetExpectation ==
    /\ pc = "done" /\ _element_to_graph # None
    /\ \E i \in 1..Len(_element_to_graph[1]) :
          /\ input' = [element_graph |-> _element_to_graph[1][i]]
          /\ output' = get_expectation_trace(Self, _element_to_graph[1][i])
    /\ fn' = "get_expectation"
    /\ UNCHANGED <<pc, maxcutVars, circuitVars, poolVars>>

\* expectation_calculation with _is_parallel false: expectation_calculation_serial
ExpectationCalculationSerial ==
    /\ pc = "done" /\ _element_to_graph # None
    /\ Len(returned) < MaxCalls
    /\ ~_is_parallel
    /\ os_environ' = Some("cpu_count")
    /\ LET res == expectation_calculation_serial(Self, _element_to_graph[1])
       IN /\ _expectation_path' = path_append(_expectation_path, res)
          /\ output' = [ret |-> res, via |-> "serial"]
          /\ returned' = Append(returned, res)
    /\ fn' = "expectation_calculation" /\ input' = None
    /\ UNCHANGED <<pc, maxcutVars, _p, _pargs, _nodes_weight, _edges_weight,
                   _is_parallel, _element_to_graph, tasks, circ_res>>

\* expectation_calculation with _is_parallel true: expectation_calculation_parallel up to
\* the submission of the tasks by pool.map
ParallelStart ==
    /\ pc = "done" /\ _element_to_graph # None
    /\ Len(returned) < MaxCalls
    /\ _is_parallel
    /\ os_environ' = Some("1")
    /\ tasks' = [i \in 1..Len(_element_to_graph[1]) |-> "queued"]
    /\ circ_res' = [i \in 1..Len(_element_to_graph[1]) |-> None]
    /\ pc' = "pool"
    /\ fn' = "expectation_calculation" /\ input' = None /\ output' = None
    /\ UNCHANGED <<maxcutVars, circuitVars, returned>>

\* a free pool worker takes a queued task
WorkerPick ==
    /\ pc = "pool"
    /\ Cardinality({j \in 1..Len(tasks) : tasks[j] = "running"}) < PoolSize
    /\ \E i \in 1..Len(tasks) :
          /\ tasks[i] = "queued"
          /\ tasks' = [tasks EXCEPT ![i] = "running"]
    /\ UNCHANGED <<callVars, maxcutVars, circuitVars, os_environ, circ_res, returned>>

\* a worker finishes get_expectation on its copy of the instance and delivers the result
WorkerFinish ==
    /\ pc = "pool"
    /\ \E i \in 1..Len(tasks) :
          /\ tasks[i] = "running"
          /\ tasks' = [tasks EXCEPT ![i] = "done"]
          /\ circ_res' = [circ_res EXCEPT ![ResultSlot(circ_res, i)] =
                             Some(get_expectation(Self, _element_to_graph[1][i]))]
    /\ UNCHANGED <<callVars, maxcutVars, circuitVars, os_environ, returned>>

\* pool.map returns; the pool is terminated and joined, the results are summed
ParallelCollect ==
    /\ pc = "pool"
    /\ MapDone(tasks)
    /\ LET res == py_sum([i \in 1..Len(circ_res) |-> circ_res[i][1]])
       IN /\ _expectation_path' = path_append(_expectation_path, res)
          /\ output' = [ret |-> res, via |-> "parallel"]
          /\ returned' = Append(returned, res)
    /\ pc' = "done"
    /\ UNCHANGED <<fn, input, maxcutVars, _p, _pargs, _nodes_weight, _edges_weight,
                   _is_parallel, _element_to_graph, os_environ, tasks, circ_res>>

Next ==
    \/ Setup
    \/ SetPargs
    \/ CallGetExpectation
    \/ ExpectationCalculationSerial
    \/ ParallelStart
    \/ WorkerPick
    \/ WorkerFinish
    \/ ParallelCollect

Spec == Init /\ [][Next]_vars

\* the contribution of every item of the dict, in the order of items()
Contributions ==
    [i \in 1..Len(_element_to_graph[1]) |-> get_expectation(Self, _element_to_graph[1][i])]

\* the float sum of the first k entries of c, taken from the left
RECURSIVE LeftSum(_, _)
LeftSum(c, k) == IF k = 0 THEN 0 ELSE Round(LeftSum(c, k - 1) + c[k])

\* the exact sum of the first k entries of c
RECURSIVE ExactSum(_, _)
ExactSum(c, k) == IF k = 0 THEN 0 ELSE ExactSum(c, k - 1) + c[k]

\* C1: expectation_calculation_serial returns the sum over every entry of _element_to_graph
\* of get_expectation(entry), every entry contributing exactly once (the float sum taken in
\* the order of items(), which is the exact sum whenever no partial sum is rounded), and 0
\* for an empty dict.
C1_SerialTotal ==
    (pc = "done" /\ fn = "expectation_calculation" /\ output.via = "serial") =>
        LET c == Contributions
        IN /\ output.ret = LeftSum(c, Len(c))
           /\ (\A k \in 1..Len(c) : Abs(ExactSum(c, k)) <= ExactRange) =>
                 output.ret = ExactSum(c, Len(c))
           /\ Len(c) = 0 => output.ret = 0

\* a serial call over three items, with non-zero contributions, has returned their non-zero sum
C1_Witness ==
    /\ pc = "done" /\ fn = "expectation_calculation" /\ output.via = "serial"
    /\ Len(_element_to_graph[1]) = 3
    /\ \A i \in 1..3 : Contributions[i] # 0
    /\ \A k \in 1..3 : Abs(ExactSum(Contributions, k)) <= ExactRange
    /\ output.ret # 0

\* C2: with is_parallel=True expectation_calculation returns the total that the serial
\* evaluation of the same _element_to_graph, _pargs, _p and weights returns, whatever the
\* order in which the workers took and finished the tasks; is_parallel None or False takes
\* the serial path; every task has delivered its result when the pool is terminated.
C2_ParallelEqualsSerial ==
    /\ (fn = "__init__") => (_is_parallel <=> input.is_parallel = Some(TRUE))
    /\ (pc = "done" /\ fn = "expectation_calculation") =>
          /\ output.ret = expectation_calculation_serial(Self, _element_to_graph[1])
          /\ output.via = (IF _is_parallel THEN "parallel" ELSE "serial")
          /\ output.via = "parallel" =>
                /\ Len(tasks) = Len(_element_to_graph[1])
                /\ \A i \in 1..Len(tasks) : tasks[i] = "done" /\ circ_res[i] # None

\* a parallel call has returned for three items whose sum depends on the order of the additions
C2_Witness ==
    /\ pc = "done" /\ fn = "expectation_calculation" /\ output.via = "parallel"
    /\ Len(_element_to_graph[1]) = 3
    /\ LET c == Contributions
       IN Round(Round(c[3] + c[2]) + c[1]) # Round(Round(c[1] + c[2]) + c[3])

\* the gates of a circuit that are not H gates
NotH(g) == g.gate # "H"
\* the edges of a subgraph that are not self-loops
NotLoop(e) == e[1] # e[2]

\* C7: for p >= 1 the circuit of get_expectation is p layers in the order k = 0..p-1, each
\* an rz on every node (angle 2*gamma[k]*node weight), an RZZ on every edge that is not a
\* self-loop, an rx on every node (angle 2*beta[k]); every qubit gets exactly one H, in layer
\* 0 and before any other gate on it; gamma is the first p entries of _pargs, beta the rest;
\* the observable is Z on the element's qubit scaled by the node weight for an int element,
\* ZZ on the two endpoint qubits scaled by the edge weight otherwise.
C7_CircuitLayers ==
    (pc = "done" /\ fn = "get_expectation" /\ _p[1] >= 1) =>
        LET e == input.element_graph[1]
            graph == input.element_graph[2]
            circ == output.circ
            p == _p[1]
            n == Len(graph.nodes)
            edges == SelectSeq(graph.edges, NotLoop)
            m == Len(edges)
            rest == SelectSeq(circ, NotH)
            qubit(nd) == (CHOOSE i \in 1..n : graph.nodes[i] = nd) - 1
            gamma(k) == _pargs[1][k + 1]
            beta(k) == _pargs[1][p + k + 1]
        IN /\ Len(rest) = p * (2 * n + m)
           /\ \A k \in 0..(p - 1) :
                 LET base == k * (2 * n + m)
                 IN /\ \A i \in 1..n :
                          rest[base + i] =
                             Gate("rz", <<2 * gamma(k) * _nodes_weight[graph.nodes[i]]>>, <<i - 1>>)
                    /\ \A j \in 1..m :
                          /\ rest[base + n + j].gate = "RZZ"
                          /\ rest[base + n + j].qubits = <<qubit(edges[j][1]), qubit(edges[j][2])>>
                    /\ \A i \in 1..n :
                          rest[base + n + m + i] = Gate("rx", <<2 * beta(k)>>, <<i - 1>>)
           /\ \A q \in 0..(n - 1) :
                 LET hs == {h \in 1..Len(circ) : circ[h] = Gate("H", <<>>, <<q>>)}
                 IN /\ Cardinality(hs) = 1
                    /\ \A h \in hs :
                          /\ h <= 3 * n + m
                          /\ \A j \in 1..Len(circ) :
                                (NotH(circ[j]) /\ \E x \in 1..Len(circ[j].qubits) : circ[j].qubits[x] = q)
                                   => h < j
           /\ Len(circ) = Len(rest) + n
           /\ Len(_pargs[1]) = 2 * p
           /\ IF Len(e) = 1
              THEN /\ output.G = "Z" /\ output.where = <<qubit(e[1])>>
                   /\ output.weight = _nodes_weight[e[1]]
              ELSE /\ output.G = "ZZ" /\ output.where = <<qubit(e[1]), qubit(e[2])>>
                   /\ output.weight = _edges_weight[e]
           /\ output.ret = Round(local_expectation(circ, output.G, output.where) * output.weight)

\* get_expectation has returned for an edge element whose subgraph has a self-loop, with two layers
C7_Witness ==
    /\ pc = "done" /\ fn = "get_expectation"
    /\ _p[1] = 2
    /\ input.element_graph = << <<0, 1>>, GraphB >>
    /\ Len(output.circ) = 12
    /\ output.G = "ZZ" /\ output.where = <<1, 0>>

\* C9: every completed call of expectation_calculation, serial or parallel, appends exactly
\* one value to _expectation_path, the total it returns, and leaves the earlier entries
\* unchanged: the path lists the returned totals in call order; no other step changes the
\* path, in particular not get_expectation, alone or in the pool workers.
C9_ExpectationPath ==
    /\ [](_expectation_path = returned)
    /\ [][\/ _expectation_path' = _expectation_path
          \/ /\ pc' = "done" /\ fn' = "expectation_calculation"
             /\ returned' = Append(returned, output'.ret)
             /\ _expectation_path' = Append(_expectation_path, output'.ret)]_vars
    /\ [][(fn' = "get_expectation" \/ pc' = "pool") => _expectation_path' = _expectation_path]_vars

\* two calls have completed, a parallel one last, with different totals
C9_Witness ==
    /\ pc = "done" /\ fn = "expectation_calculation" /\ output.via = "parallel"
    /\ Len(_expectation_path) = 2
    /\ _expectation_path[1] # _expectation_path[2]
    /\ _expectation_path[2] = output.ret

=============================================================================
